---- MODULE Spec2Model ----
(***************************************************************************)
(* The gather collective of boost/mpi/collectives/gather.hpp.              *)
(*                                                                         *)
(* One behaviour is one gather call of a group: every participant (rank)   *)
(* enters one of the public overloads, runs detail::gather_impl and with   *)
(* it the MPI collectives MPI_Gather / MPI_Gatherv.  The MPI library is    *)
(* modelled by what the MPI standard lets it do: a contribution is handed  *)
(* over when a rank enters the collective, contributions reach the root's  *)
(* receive buffer in any order, the root returns once it holds every       *)
(* non-empty contribution, a non-root may return as soon as its own        *)
(* contribution is handed over, and every call returns a status of its own.*)
(*                                                                         *)
(* Spec follows one call, SpecLive the same call with the ranks and the    *)
(* transport running on, SpecOffsets detail::sizes2offset on its own, and  *)
(* SpecCalls a sequence of serialized calls on one communicator.           *)
(***************************************************************************)
EXTENDS Integers, Sequences, FiniteSets, TLC

\* Bounds of the model: the group size, the per-call count, the units a call
\* moves (n values and one size per rank), the gather calls a rank makes one
\* after another, and the width of int.
MaxProcs == 3
MaxCount == 2
MaxTransfer == 6
MaxCalls == 2
IntBits == 8

VARIABLES
  nproc,            \* comm.size()
  root,             \* the root argument of the call
  n,                \* the per-call count
  is_mpi_datatype,  \* is_mpi_datatype<T>(): TRUE selects the mpl::true_ overloads
  api,              \* the public overload family the participants call
  codec,            \* how T's load relates to T's save
  in_values,        \* in_values[p]: the n values of rank p
  pc,               \* where each rank is
  out_values,       \* out_values[p]: the receive buffer / container of rank p
  oa,               \* packed_oarchive oa of rank p (its bytes)
  asizes,           \* std::vector<int> asizes of rank p
  offsets,          \* std::vector<int> offsets of rank p
  recv_buffer,      \* packed_iarchive::buffer_type recv_buffer of rank p
  src,              \* the decode loop's counter on rank p
  err,              \* the exception a rank's call ended in
  calls,            \* the functions rank p entered, in order
  phases,           \* the protocol phases rank p executed, in order
  decoders,         \* the senders for which rank p constructed a packed_iarchive
  copies,           \* the senders whose slice rank p filled by std::copy
  joined,           \* joined[c]: the ranks that entered collective c
  delivered,        \* delivered[c]: the ranks whose contribution reached the root
  reordered,        \* some contribution arrived before one of a lower rank
  s2o,              \* a stand-alone application of sizes2offset
  callno,           \* callno[p]: the gather calls rank p has entered, one after another
  at,               \* at[p]: where rank p is in its sequence of calls
  tag,              \* int tag of rank p's current call
  issued,           \* issued[p]: what rank p handed to the communicator, in order
  received,         \* what the root's completed collectives received
  thrown            \* the calls that ended in an exception

vars == << nproc, root, n, is_mpi_datatype, api, codec, in_values, pc,
           out_values, oa, asizes, offsets, recv_buffer, src, err, calls,
           phases, decoders, copies, joined, delivered, reordered, s2o,
           callno, at, tag, issued, received, thrown >>

\* The state of a sequence of gather calls.
callvars == << callno, at, tag, issued, received, thrown >>

config == << nproc, root, n, is_mpi_datatype, api, codec, in_values >>

Ranks == 0 .. (nproc - 1)

----------------------------------------------------------------------------
\* Machine integers: int is IntBits wide, two's complement.

INT_MAX == 2 ^ (IntBits - 1) - 1

INT_MIN == 0 - INT_MAX - 1

\* int(x) of an unsigned x, as in int(oa.size()).
ToInt(x) == ((x + 2 ^ (IntBits - 1)) % (2 ^ IntBits)) - 2 ^ (IntBits - 1)

\* AddInt subtracting where it adds.
SubInt(a, b) == ToInt(a - b)

\* a + b on int, wrapping around.
AddInt(a, b) == ToInt(a + b)

\* Whether a + b leaves the range of int.
Overflows(a, b) == a + b > INT_MAX \/ a + b < INT_MIN

----------------------------------------------------------------------------
\* Values of T, and the codec (packed_oarchive / packed_iarchive).

\* T() of the element type: int() or std::string().
DefaultValue == IF is_mpi_datatype THEN 0 ELSE << >>

\* What a buffer holds before the call writes to it.
StaleValue == IF is_mpi_datatype THEN 0 - 1 ELSE << 0 - 1 >>

DirectValues == { 1, 2 }

SerialValues == { << 1 >>, << 2, 2 >> }

\* oa << v for a std::string v: its length, then its characters.
Save(v) == << Len(v) >> \o v

RECURSIVE Encode(_)
\* for (i < n) oa << in_values[i]
Encode(vals) ==
  IF vals = << >> THEN << >> ELSE Save(Head(vals)) \o Encode(Tail(vals))

\* What T's load makes of the saved bytes of a value.
Restore(bytes) ==
  IF codec = "lossy" THEN [ i \in 1 .. Len(bytes) |-> bytes[i] + 1 ] ELSE bytes

RECURSIVE LoadValues(_, _, _, _)
\* for (i < cnt) ia >> out: reads cnt values from buf at position pos (0-based);
\* stops with ok = FALSE where the buffer ends before the value does.
LoadValues(buf, pos, cnt, acc) ==
  IF cnt = 0 THEN [ ok |-> TRUE, vals |-> acc ]
  ELSE IF pos < 0 \/ pos + 1 > Len(buf) THEN [ ok |-> FALSE, vals |-> acc ]
  ELSE LET len == buf[pos + 1] IN
       IF len < 0 \/ pos + 1 + len > Len(buf) THEN [ ok |-> FALSE, vals |-> acc ]
       ELSE LoadValues(buf, pos + 1 + len, cnt - 1,
                       Append(acc, Restore(SubSeq(buf, pos + 2, pos + 1 + len))))

----------------------------------------------------------------------------
\* std::vector helpers.

\* v.resize(len): keeps the first elements, value-initialises the new ones.
Resize(v, len, d) == [ i \in 1 .. len |-> IF i <= Len(v) THEN v[i] ELSE d ]

\* Writes data into v from 0-based index start on, inside v only.
WriteAt(v, start, data) ==
  [ i \in 1 .. Len(v) |->
      IF i > start /\ i <= start + Len(data) THEN data[i - start] ELSE v[i] ]

RECURSIVE Sum(_)
\* std::accumulate(asizes.begin(), asizes.end(), 0)
Sum(s) == IF s = << >> THEN 0 ELSE AddInt(Head(s), Sum(Tail(s)))

RECURSIVE MathSum(_)
MathSum(s) == IF s = << >> THEN 0 ELSE Head(s) + MathSum(Tail(s))

----------------------------------------------------------------------------
\* detail::sizes2offset

\* sizes.size()-1: size() is unsigned, so that 0 - 1 wraps around; size_t is
\* scaled as int is.
LoopBound(sizes) == (Len(sizes) - 1) % (2 ^ IntBits)

RECURSIVE sizes2offsetLoop(_, _, _)
sizes2offsetLoop(sizes, offs, i) ==
  IF i < LoopBound(sizes)
  THEN sizes2offsetLoop(sizes,
         [ offs EXCEPT ![i + 2] = AddInt(offs[i + 1], sizes[i + 1]) ], i + 1)
  ELSE offs

RECURSIVE sizes2offsetShiftedLoop(_, _, _)
sizes2offsetShiftedLoop(sizes, offs, i) ==
  IF i < LoopBound(sizes)
  THEN sizes2offsetShiftedLoop(sizes,
         [ offs EXCEPT ![i + 2] = AddInt(offs[i + 1], sizes[i + 2]) ], i + 1)
  ELSE offs

\* sizes2offset adding sizes[i+1] where it adds sizes[i].
sizes2offsetShifted(sizes, offs) ==
  sizes2offsetShiftedLoop(sizes, [ offs EXCEPT ![1] = 0 ], 0)

sizes2offset(sizes, offs) ==
  sizes2offsetLoop(sizes, [ offs EXCEPT ![1] = 0 ], 0)

RECURSIVE sizes2offsetOverflows(_, _)
\* Whether some offsets[i] + sizes[i] of the loop leaves the range of int.
sizes2offsetOverflows(sizes, acc) ==
  IF Len(sizes) <= 1 THEN FALSE
  ELSE Overflows(acc, Head(sizes))
       \/ sizes2offsetOverflows(Tail(sizes), AddInt(acc, Head(sizes)))

----------------------------------------------------------------------------
\* The state before the call.

\* The container a rank holds before the call: rank p's has p stale elements.
OldContainer(p) == [ i \in 1 .. p |-> StaleValue ]

\* The caller's receive buffer of the T* overloads: room for nproc * n values.
CallerBuffer == [ i \in 1 .. nproc * n |-> StaleValue ]

NoError == [ routine |-> "", result_code |-> "MPI_SUCCESS" ]

Unused == [ state |-> "unused", sizes |-> << >>, offsets |-> << >> ]

Collectives == { "MPI_Gather", "MPI_Gatherv" }

MainInit ==
  /\ nproc \in 1 .. MaxProcs
  /\ root \in 0 .. (nproc - 1)
  /\ n \in 0 .. MaxCount
  /\ nproc * (n + 1) <= MaxTransfer
  /\ is_mpi_datatype \in BOOLEAN
  /\ api \in { "ptr", "vec", "nonroot" }
  /\ codec \in (IF is_mpi_datatype THEN { "faithful" } ELSE { "faithful", "lossy" })
  /\ in_values \in [ 0 .. (nproc - 1) ->
                     [ 1 .. n -> IF is_mpi_datatype THEN DirectValues ELSE SerialValues ] ]
  /\ pc = [ p \in Ranks |-> "idle" ]
  /\ out_values = [ p \in Ranks |->
                    IF api = "ptr" /\ p = root THEN CallerBuffer ELSE OldContainer(p) ]
  /\ oa = [ p \in Ranks |-> << >> ]
  /\ asizes = [ p \in Ranks |-> << >> ]
  /\ offsets = [ p \in Ranks |-> << >> ]
  /\ recv_buffer = [ p \in Ranks |-> << >> ]
  /\ src = [ p \in Ranks |-> 0 ]
  /\ err = [ p \in Ranks |-> NoError ]
  /\ calls = [ p \in Ranks |-> << >> ]
  /\ phases = [ p \in Ranks |-> << >> ]
  /\ decoders = [ p \in Ranks |-> { } ]
  /\ copies = [ p \in Ranks |-> { } ]
  /\ joined = [ c \in Collectives |-> { } ]
  /\ delivered = [ c \in Collectives |-> { } ]
  /\ reordered = FALSE

\* No sequence of calls is followed.
CallsUnused ==
  /\ callno = << >> /\ at = << >> /\ tag = << >>
  /\ issued = << >> /\ received = << >> /\ thrown = { }

Init == MainInit /\ s2o = Unused /\ CallsUnused

----------------------------------------------------------------------------
\* detail::gather_impl up to its first collective.

\* The chain of the nested gather(comm, int(oa.size()), asizes, root).
NestedChain(p) ==
  IF p = root THEN << "gather_vec", "gather_ptr", "impl_direct_root" >>
  ELSE << "gather_vec", "gather_nonroot", "impl_direct_nonroot" >>

\* The gather_impl overloads a public overload dispatches to on rank p.
ImplChain(p) ==
  IF is_mpi_datatype
  THEN << IF p = root THEN "impl_direct_root" ELSE "impl_direct_nonroot" >>
  ELSE (IF p = root THEN << "impl_serial_root" >>
        ELSE << "impl_serial_nonroot", "impl_serial_root" >>) \o NestedChain(p)

\* NestedResize with the resize left out.
NestedResizeNone(p) == << >>

\* NestedResize with the resize done on every rank.
NestedResizeEverywhere(p) == Resize(<< >>, nproc, 0)

\* asizes after the nested gather's resize: comm.size() ints on the root.
NestedResize(p) == IF p = root THEN Resize(<< >>, nproc, 0) ELSE << >>

\* Rank p enters gather_impl through chain, its container being outv, and
\* blocks in MPI_Gather: the transfer itself (mpl::true_) or the nested
\* gather of the encoded sizes (mpl::false_).
ImplEnter(p, chain, outv) ==
  /\ out_values' = [ out_values EXCEPT ![p] = outv ]
  /\ calls' = [ calls EXCEPT ![p] = chain \o ImplChain(p) ]
  /\ IF is_mpi_datatype
     THEN /\ phases' = [ phases EXCEPT ![p] = << "transfer" >> ]
          /\ UNCHANGED << oa, asizes >>
     ELSE /\ phases' = [ phases EXCEPT ![p] = << "encode", "size_exchange" >> ]
          /\ oa' = [ oa EXCEPT ![p] = Encode(in_values[p]) ]
          /\ asizes' = [ asizes EXCEPT ![p] = NestedResize(p) ]
  /\ pc' = [ pc EXCEPT ![p] = "MPI_Gather" ]
  /\ joined' = [ joined EXCEPT !["MPI_Gather"] = @ \cup { p } ]
  /\ UNCHANGED << config, offsets, recv_buffer, src, err, decoders, copies,
                  delivered, reordered, s2o, callvars >>

\* BOOST_ASSERT(comm.rank() != root) fails: the call ends there.
AssertFails(p, chain) ==
  /\ pc' = [ pc EXCEPT ![p] = "assert_failed" ]
  /\ calls' = [ calls EXCEPT ![p] = chain ]
  /\ UNCHANGED << config, out_values, oa, asizes, offsets, recv_buffer, src, err,
                  phases, decoders, copies, joined, delivered, reordered, s2o, callvars >>

----------------------------------------------------------------------------
\* The public overloads.

\* NonRootOverload without its BOOST_ASSERT.
NonRootOverloadUnchecked(p, chain) ==
  ImplEnter(p, Append(chain, "gather_nonroot"), out_values[p])

\* gather(comm, in, [n,] root): the overloads without a receive buffer.
NonRootOverload(p, chain) ==
  IF p # root
  THEN ImplEnter(p, Append(chain, "gather_nonroot"), out_values[p])
  ELSE AssertFails(p, Append(chain, "gather_nonroot"))

\* gather(comm, in, [n,] T* out_values, root)
PtrOverload(p, chain, outv) ==
  ImplEnter(p, Append(chain, "gather_ptr"), outv)

\* &out_values[0] of a container without element 0: operator[] out of range is
\* undefined; a library that checks the index ends the process there.
ElementAccessTraps(p, chain, outv) ==
  /\ Len(outv) = 0
  /\ pc' = [ pc EXCEPT ![p] = "aborted" ]
  /\ out_values' = [ out_values EXCEPT ![p] = outv ]
  /\ calls' = [ calls EXCEPT ![p] = chain ]
  /\ UNCHANGED << config, oa, asizes, offsets, recv_buffer, src, err, phases,
                  decoders, copies, joined, delivered, reordered, s2o, callvars >>

\* VecOverload without the resize on the root.
VecOverloadNoResize(p) ==
  IF p = root
  THEN PtrOverload(p, << "gather_vec" >>, out_values[p])
  ELSE NonRootOverload(p, << "gather_vec" >>)

\* gather(comm, in, [n,] std::vector<T>& out_values, root): on the root the
\* container is resized and &out_values[0] is handed on; where the container is
\* empty, a library that does not check the index hands an unused address on.
VecOverload(p) ==
  IF p = root
  THEN LET outv == Resize(out_values[p], nproc * n, DefaultValue) IN
       \/ PtrOverload(p, << "gather_vec" >>, outv)
       \/ ElementAccessTraps(p, << "gather_vec" >>, outv)
  ELSE NonRootOverload(p, << "gather_vec" >>)

GatherScalarPtr(p) ==
  /\ pc[p] = "idle" /\ api = "ptr" /\ n = 1
  /\ PtrOverload(p, << >>, out_values[p])

GatherScalarNonRoot(p) ==
  /\ pc[p] = "idle" /\ api = "nonroot" /\ n = 1
  /\ NonRootOverload(p, << >>)

GatherScalarVec(p) ==
  /\ pc[p] = "idle" /\ api = "vec" /\ n = 1
  /\ VecOverload(p)

GatherArrayPtr(p) ==
  /\ pc[p] = "idle" /\ api = "ptr"
  /\ PtrOverload(p, << >>, out_values[p])

GatherArrayVec(p) ==
  /\ pc[p] = "idle" /\ api = "vec"
  /\ VecOverload(p)

GatherArrayNonRoot(p) ==
  /\ pc[p] = "idle" /\ api = "nonroot"
  /\ NonRootOverload(p, << >>)

----------------------------------------------------------------------------
\* MPI_Gather: the transfer of the mpl::true_ overloads, among them the
\* nested gather of the encoded sizes.

Statuses == { "MPI_SUCCESS", "MPI_ERR_OTHER" }

\* GatherCount with the nested gather passing n where it passes 1.
GatherCountAsN == n

\* The count argument of MPI_Gather.
GatherCount == IF is_mpi_datatype THEN n ELSE 1

\* GatherSend announcing one byte more than oa holds.
GatherSendPadded(k) ==
  IF is_mpi_datatype THEN in_values[k] ELSE << ToInt(Len(oa[k]) + 1) >>

\* What rank k sends: its values, or int(oa.size()).
GatherSend(k) == IF is_mpi_datatype THEN in_values[k] ELSE << ToInt(Len(oa[k])) >>

\* GatherSlot without the stride of count elements per rank.
GatherSlotNoStride(k) == k

\* Where rank k's block starts in the root's receive buffer.
GatherSlot(k) == k * GatherCount

\* The contribution of rank k reaches the root's receive buffer.
Deliver_MPI_Gather(k) ==
  /\ pc[root] = "MPI_Gather"
  /\ k \in joined["MPI_Gather"] \ delivered["MPI_Gather"]
  /\ IF is_mpi_datatype
     THEN /\ out_values' = [ out_values EXCEPT
                             ![root] = WriteAt(@, GatherSlot(k), GatherSend(k)) ]
          /\ UNCHANGED asizes
     ELSE /\ asizes' = [ asizes EXCEPT
                         ![root] = WriteAt(@, GatherSlot(k), GatherSend(k)) ]
          /\ UNCHANGED out_values
  /\ delivered' = [ delivered EXCEPT !["MPI_Gather"] = @ \cup { k } ]
  /\ reordered' = (reordered \/ \E j \in Ranks :
                                  j < k /\ j \notin delivered["MPI_Gather"])
  /\ UNCHANGED << config, pc, oa, offsets, recv_buffer, src, err, calls, phases,
                  decoders, copies, joined, s2o, callvars >>

\* Lines 91-97 up to the call of MPI_Gatherv.
EnterGatherv(p) ==
  /\ offsets' = [ offsets EXCEPT ![p] =
                    IF p = root
                    THEN sizes2offset(asizes[p], Resize(<< >>, nproc, 0))
                    ELSE Resize(<< >>, nproc, 0) ]
  /\ recv_buffer' = [ recv_buffer EXCEPT ![p] = Resize(<< >>, Sum(asizes[p]), 0) ]
  /\ phases' = [ phases EXCEPT ![p] =
                   @ \o (IF p = root THEN << "offsets" >> ELSE << >>)
                     \o << "payload_exchange" >> ]
  /\ joined' = [ joined EXCEPT !["MPI_Gatherv"] = @ \cup { p } ]
  /\ pc' = [ pc EXCEPT ![p] = "MPI_Gatherv" ]
  /\ UNCHANGED << config, out_values, oa, asizes, src, err, calls, decoders,
                  copies, delivered, reordered, s2o, callvars >>

\* The call is over with MPI_SUCCESS.
Finish(p) ==
  /\ pc' = [ pc EXCEPT ![p] = "done" ]
  /\ UNCHANGED << config, out_values, oa, asizes, offsets, recv_buffer, src, err,
                  calls, phases, decoders, copies, joined, delivered, reordered,
                  s2o, callvars >>

\* AfterGatherv issuing MPI_Gatherv once more.
GathervTwice(p) == EnterGatherv(p)

\* AfterGatherv with the decode loop left out: the call returns at line 98.
ReturnAfterGatherv(p) == Finish(p)

\* Line 98: the root goes on to decode, the others are done.
AfterGatherv(p) ==
  IF p = root
  THEN /\ pc' = [ pc EXCEPT ![p] = "decode" ]
       /\ src' = [ src EXCEPT ![p] = 0 ]
       /\ phases' = [ phases EXCEPT ![p] = Append(@, "decode") ]
       /\ UNCHANGED << config, out_values, oa, asizes, offsets, recv_buffer, err,
                       calls, decoders, copies, joined, delivered, reordered, s2o, callvars >>
  ELSE Finish(p)

\* AfterSizeExchange with the payload exchange entered on the root alone.
PayloadExchangeOnRootOnly(p) == IF p = root THEN EnterGatherv(p) ELSE Finish(p)

\* Lines 87-97: after the nested gather of the sizes comes the payload exchange,
\* on every rank.
AfterSizeExchange(p) == EnterGatherv(p)

\* Throw with the status dropped: the call goes on as after MPI_SUCCESS.
IgnoreStatus(p, routine, status) ==
  IF routine = "MPI_Gatherv" THEN AfterGatherv(p)
  ELSE IF is_mpi_datatype THEN Finish(p)
  ELSE AfterSizeExchange(p)

\* Throw with the failure ending the call of every rank of the group.
ThrowToGroup(p, routine, status) ==
  /\ pc' = [ q \in Ranks |-> "error" ]
  /\ err' = [ q \in Ranks |-> [ routine |-> routine, result_code |-> status ] ]
  /\ UNCHANGED << config, out_values, oa, asizes, offsets, recv_buffer, src,
                  calls, phases, decoders, copies, joined, delivered,
                  reordered, s2o, callvars >>

\* BOOST_MPI_CHECK_RESULT: a status other than MPI_SUCCESS is thrown as
\* boost::mpi::exception(routine, status).
Throw(p, routine, status) ==
  /\ pc' = [ pc EXCEPT ![p] = "error" ]
  /\ err' = [ err EXCEPT ![p] = [ routine |-> routine, result_code |-> status ] ]
  /\ UNCHANGED << config, out_values, oa, asizes, offsets, recv_buffer, src,
                  calls, phases, decoders, copies, joined, delivered,
                  reordered, s2o, callvars >>

\* GatherComplete with the size exchange completing on the root only once the
\* payloads have arrived.
GatherCompleteAfterPayload == Ranks \subseteq delivered["MPI_Gatherv"]

\* Whether the root's MPI_Gather holds all it waits for.
GatherComplete == GatherCount > 0 => Ranks \subseteq delivered["MPI_Gather"]

\* MPI_Gather returns status on rank p.
Return_MPI_Gather(p, status) ==
  /\ pc[p] = "MPI_Gather"
  /\ (status = "MPI_SUCCESS" /\ p = root) => GatherComplete
  /\ IF status # "MPI_SUCCESS" THEN Throw(p, "MPI_Gather", status)
     ELSE IF is_mpi_datatype THEN Finish(p)
     ELSE AfterSizeExchange(p)

----------------------------------------------------------------------------
\* MPI_Gatherv: the payload exchange.

\* The send count of rank k in MPI_Gatherv: int(oa.size()).
GathervSendCount(k) == ToInt(Len(oa[k]))

\* GathervRecv with nothing received from the root itself.
GathervRecvOthers(k) ==
  IF k = root THEN << >>
  ELSE SubSeq(oa[k], 1, IF asizes[root][k + 1] < Len(oa[k])
                        THEN asizes[root][k + 1] ELSE Len(oa[k]))

\* The bytes of rank k the root receives: recvcounts[k] = asizes[k] of them.
GathervRecv(k) ==
  SubSeq(oa[k], 1, IF asizes[root][k + 1] < Len(oa[k])
                   THEN asizes[root][k + 1] ELSE Len(oa[k]))

Deliver_MPI_Gatherv(k) ==
  /\ pc[root] = "MPI_Gatherv"
  /\ k \in joined["MPI_Gatherv"] \ delivered["MPI_Gatherv"]
  /\ recv_buffer' = [ recv_buffer EXCEPT
                      ![root] = WriteAt(@, offsets[root][k + 1], GathervRecv(k)) ]
  /\ delivered' = [ delivered EXCEPT !["MPI_Gatherv"] = @ \cup { k } ]
  /\ reordered' = (reordered \/ \E j \in Ranks :
                                  j < k /\ j \notin delivered["MPI_Gatherv"])
  /\ UNCHANGED << config, pc, out_values, oa, asizes, offsets, src, err, calls,
                  phases, decoders, copies, joined, s2o, callvars >>

\* Whether the root's MPI_Gatherv holds all it waits for.
GathervComplete ==
  \A k \in Ranks : asizes[root][k + 1] > 0 => k \in delivered["MPI_Gatherv"]

Return_MPI_Gatherv(p, status) ==
  /\ pc[p] = "MPI_Gatherv"
  /\ (status = "MPI_SUCCESS" /\ p = root) => GathervComplete
  /\ IF status # "MPI_SUCCESS" THEN Throw(p, "MPI_Gatherv", status)
     ELSE AfterGatherv(p)

----------------------------------------------------------------------------
\* Lines 99-108: one iteration of the decode loop.

\* OutSlot without the stride of n values per sender.
OutSlotNoStride(k) == k

\* out_values + n * src
OutSlot(k) == n * k

\* IsOwnSlice without the src == root branch: every slice is decoded.
NoOwnSlice(p, k) == FALSE

\* Whether the loop copies the slice of sender k instead of decoding it.
IsOwnSlice(p, k) == k = root

\* The first m elements of s.
Take(s, m) == SubSeq(s, 1, IF m < Len(s) THEN m ELSE Len(s))

\* Sender k is processed; T's load throws after `loadable` values, if it has
\* that many left to load.
Decode(p, loadable) ==
  /\ pc[p] = "decode"
  /\ LET k == src[p]
         own == IsOwnSlice(p, k)
         got == LoadValues(recv_buffer[p], offsets[p][k + 1], n, << >>)
         vals == IF own THEN in_values[p] ELSE Take(got.vals, loadable)
         ok == own \/ (got.ok /\ loadable = n)
     IN
     /\ own => loadable = n
     /\ out_values' = [ out_values EXCEPT ![p] = WriteAt(@, OutSlot(k), vals) ]
     /\ copies' = [ copies EXCEPT ![p] = IF own THEN @ \cup { k } ELSE @ ]
     /\ decoders' = [ decoders EXCEPT ![p] = IF own THEN @ ELSE @ \cup { k } ]
     /\ IF ok
        THEN /\ src' = [ src EXCEPT ![p] = k + 1 ]
             /\ pc' = [ pc EXCEPT ![p] = IF k + 1 < nproc THEN "decode" ELSE "done" ]
             /\ UNCHANGED err
        ELSE /\ pc' = [ pc EXCEPT ![p] = "error" ]
             /\ err' = [ err EXCEPT ![p] = [ routine |-> "packed_iarchive",
                                             result_code |-> "archive_exception" ] ]
             /\ UNCHANGED src
  /\ UNCHANGED << config, oa, asizes, offsets, recv_buffer, calls, phases, joined,
                  delivered, reordered, s2o, callvars >>

----------------------------------------------------------------------------
Next ==
  \/ \E p \in Ranks : GatherScalarPtr(p)
  \/ \E p \in Ranks : GatherScalarNonRoot(p)
  \/ \E p \in Ranks : GatherScalarVec(p)
  \/ \E p \in Ranks : GatherArrayPtr(p)
  \/ \E p \in Ranks : GatherArrayVec(p)
  \/ \E p \in Ranks : GatherArrayNonRoot(p)
  \/ \E k \in Ranks : Deliver_MPI_Gather(k)
  \/ \E p \in Ranks, status \in Statuses : Return_MPI_Gather(p, status)
  \/ \E k \in Ranks : Deliver_MPI_Gatherv(k)
  \/ \E p \in Ranks, status \in Statuses : Return_MPI_Gatherv(p, status)
  \/ \E p \in Ranks, loadable \in 0 .. n : Decode(p, loadable)

Spec == Init /\ [][Next]_vars

\* The steps of Next in which nothing fails: a rank enters its overload, a
\* contribution arrives, a collective whose completion condition holds returns
\* MPI_SUCCESS, a slice is decoded to its end.
Progress ==
  \/ \E p \in Ranks : GatherScalarPtr(p) \/ GatherScalarNonRoot(p)
                        \/ GatherScalarVec(p) \/ GatherArrayPtr(p)
                        \/ GatherArrayVec(p) \/ GatherArrayNonRoot(p)
  \/ \E k \in Ranks : Deliver_MPI_Gather(k) \/ Deliver_MPI_Gatherv(k)
  \/ \E p \in Ranks : Return_MPI_Gather(p, "MPI_SUCCESS")
                        \/ Return_MPI_Gatherv(p, "MPI_SUCCESS")
  \/ \E p \in Ranks : Decode(p, n)

\* The same calls with every participant and the MPI library running on: while
\* a rank can take its next step, or a transfer can proceed or complete, the
\* group is not held back forever.  Failures stay possible and are not forced.
SpecLive == Init /\ [][Next]_vars /\ WF_vars(Progress)

----------------------------------------------------------------------------
\* sizes2offset on its own, applied to size vectors up to INT_MAX.

SizeSamples == { 0, 1, 2, INT_MAX - 1, INT_MAX }

SizeVectors == UNION { [ 1 .. len -> SizeSamples ] : len \in 1 .. MaxProcs }

InitOffsets ==
  /\ MainInit
  /\ nproc = 1 /\ n = 0 /\ is_mpi_datatype /\ api = "vec"
  /\ CallsUnused
  /\ s2o \in { [ state |-> "ready", sizes |-> s,
                 offsets |-> Resize(<< >>, Len(s), 0) ] : s \in SizeVectors }

\* sizes2offset(sizes, offsets) returns.
Sizes2OffsetReturns ==
  /\ s2o.state = "ready"
  /\ s2o' = [ s2o EXCEPT !.state = "returned",
                         !.offsets = sizes2offset(s2o.sizes, s2o.offsets) ]
  /\ UNCHANGED << config, pc, out_values, oa, asizes, offsets, recv_buffer, src,
                  err, calls, phases, decoders, copies, joined, delivered,
                  reordered, callvars >>

\* offsets[i] + sizes[i] overflows int, which is undefined: the build wraps
\* around (above) or traps.
Sizes2OffsetTraps ==
  /\ s2o.state = "ready"
  /\ sizes2offsetOverflows(s2o.sizes, 0)
  /\ s2o' = [ s2o EXCEPT !.state = "trapped" ]
  /\ UNCHANGED << config, pc, out_values, oa, asizes, offsets, recv_buffer, src,
                  err, calls, phases, decoders, copies, joined, delivered,
                  reordered, callvars >>

NextOffsets == Sizes2OffsetReturns \/ Sizes2OffsetTraps

SpecOffsets == InitOffsets /\ [][NextOffsets]_vars

----------------------------------------------------------------------------
\* A sequence of serialized gather calls of one group on one communicator.
\* A call is followed through what it hands to and takes from the transport:
\* its tag, its MPI_Gather of the encoded size, its MPI_Gatherv of the encoded
\* payload.  MPI pairs the collectives of a communicator in the order in which
\* each rank issues them.

\* Everything of the single call above.
gathervars == << config, pc, out_values, oa, asizes, offsets, recv_buffer, src,
                 err, calls, phases, decoders, copies, joined, delivered,
                 reordered, s2o >>

\* What environment::collectives_tag() may return.
Tags == { 1, 2 }

\* The value rank p passes to its c-th call: a string of c characters.
CallValues(p, c) == << [ i \in 1 .. c |-> p + 1 ] >>

\* What a rank hands to the transport with a collective: the routine and its
\* send buffer.  No argument of MPI_Gather or MPI_Gatherv is a tag.  call is
\* the number of the gather call that issued the collective.
Message(routine, c, data) ==
  [ routine |-> routine, call |-> c, data |-> data, tags |-> << >> ]

InitCalls ==
  /\ MainInit /\ s2o = Unused
  /\ nproc >= 2 /\ nproc * MaxCalls <= MaxTransfer
  /\ n = 1 /\ ~is_mpi_datatype /\ api = "ptr" /\ codec = "faithful"
  /\ in_values = [ p \in Ranks |-> << << 1 >> >> ]
  /\ callno = [ p \in Ranks |-> 0 ]
  /\ at = [ p \in Ranks |-> "out" ]
  /\ tag = [ p \in Ranks |-> << >> ]
  /\ issued = [ p \in Ranks |-> << >> ]
  /\ received = << >>
  /\ thrown = { }

\* Lines 77-86: rank p enters its next call, obtains the tag t, encodes its
\* value and issues the MPI_Gather of the encoded size.
CallGather(p, t) ==
  /\ at[p] = "out" /\ callno[p] < MaxCalls
  /\ callno' = [ callno EXCEPT ![p] = @ + 1 ]
  /\ tag' = [ tag EXCEPT ![p] = << t >> ]
  /\ issued' = [ issued EXCEPT ![p] =
                   Append(@, Message("MPI_Gather", callno[p] + 1,
                     << ToInt(Len(Encode(CallValues(p, callno[p] + 1)))) >>)) ]
  /\ at' = [ at EXCEPT ![p] = "MPI_Gather" ]
  /\ UNCHANGED << received, thrown, gathervars >>

\* Matched with the root taking what a rank issued last.
MatchedLatest(k, i) == issued[k][Len(issued[k])]

\* What the root's i-th collective takes from rank k: MPI pairs it with the
\* i-th collective rank k issued on the communicator.
Matched(k, i) == issued[k][i]

\* Whether every rank has issued its i-th collective.
Arrived(i) == \A k \in Ranks : Len(issued[k]) >= i

\* What the root's current collective received, with the call it belongs to.
Receipt(routine) ==
  [ routine |-> routine, call |-> callno[root], tag |-> tag[root],
    from |-> [ k \in Ranks |-> Matched(k, Len(issued[root])) ] ]

\* The call of rank p ends in an exception.
CallThrows(p) ==
  /\ at' = [ at EXCEPT ![p] = "out" ]
  /\ tag' = [ tag EXCEPT ![p] = << >> ]
  /\ thrown' = thrown \cup { << p, callno[p] >> }
  /\ UNCHANGED << callno, issued, received, gathervars >>

\* Lines 86-97: the MPI_Gather of the size returns on rank p; after MPI_SUCCESS
\* the rank issues the MPI_Gatherv of its encoded payload.
CallGatherReturns(p, status) ==
  /\ at[p] = "MPI_Gather"
  /\ (p = root /\ status = "MPI_SUCCESS") => Arrived(Len(issued[p]))
  /\ IF status # "MPI_SUCCESS" THEN CallThrows(p)
     ELSE /\ received' = IF p = root THEN Append(received, Receipt("MPI_Gather"))
                         ELSE received
          /\ issued' = [ issued EXCEPT ![p] =
                           Append(@, Message("MPI_Gatherv", callno[p],
                                             Encode(CallValues(p, callno[p])))) ]
          /\ at' = [ at EXCEPT ![p] = "MPI_Gatherv" ]
          /\ UNCHANGED << callno, tag, thrown, gathervars >>

\* Lines 94-110: the MPI_Gatherv returns on rank p; after MPI_SUCCESS the call
\* returns (on the root, once it has decoded what it received).
CallGathervReturns(p, status) ==
  /\ at[p] = "MPI_Gatherv"
  /\ (p = root /\ status = "MPI_SUCCESS") => Arrived(Len(issued[p]))
  /\ IF status # "MPI_SUCCESS" THEN CallThrows(p)
     ELSE /\ received' = IF p = root THEN Append(received, Receipt("MPI_Gatherv"))
                         ELSE received
          /\ at' = [ at EXCEPT ![p] = "out" ]
          /\ tag' = [ tag EXCEPT ![p] = << >> ]
          /\ UNCHANGED << callno, issued, thrown, gathervars >>

NextCalls ==
  \/ \E p \in Ranks, t \in Tags : CallGather(p, t)
  \/ \E p \in Ranks, status \in Statuses : CallGatherReturns(p, status)
  \/ \E p \in Ranks, status \in Statuses : CallGathervReturns(p, status)

SpecCalls == InitCalls /\ [][NextCalls]_vars

----------------------------------------------------------------------------
\* Vocabulary of the properties.

\* out_values[p] as gather_impl finds it on entry.
EntryOut(p) ==
  IF p = root /\ api = "vec" THEN Resize(OldContainer(p), nproc * n, DefaultValue)
  ELSE IF p = root /\ api = "ptr" THEN CallerBuffer
  ELSE OldContainer(p)

\* Whether v holds vals at indices [k*n, k*n+n).
SliceIs(v, k, vals) ==
  /\ k * n + n <= Len(v)
  /\ Len(vals) = n
  /\ \A i \in 1 .. n : v[k * n + i] = vals[i]

\* Whether v and w agree at indices [k*n, k*n+n).
SliceSame(v, k, w) ==
  /\ k * n + n <= Len(v)
  /\ k * n + n <= Len(w)
  /\ \A i \in 1 .. n : v[k * n + i] = w[k * n + i]

AllDone == \A p \in Ranks : pc[p] = "done"

InSeq(x, s) == \E i \in 1 .. Len(s) : s[i] = x

IsPrefix(a, b) == Len(a) <= Len(b) /\ \A i \in 1 .. Len(a) : a[i] = b[i]

\* Everything rank p owns.
Local(p) ==
  << pc[p], out_values[p], oa[p], asizes[p], offsets[p], recv_buffer[p], src[p],
     err[p], calls[p], phases[p], decoders[p], copies[p] >>

----------------------------------------------------------------------------
\* C1: once every participant's call has returned, the root's result holds at
\* indices [k*n, k*n+n) the n values of rank k in their order, for every rank k,
\* whatever the order in which the contributions reached the root, on the
\* serialized and on the direct path (T's load being the inverse of its save).
C1_OrderPreserved ==
  (AllDone /\ codec = "faithful") =>
    \A k \in Ranks : SliceIs(out_values[root], k, in_values[k])

C1_Witness ==
  /\ AllDone /\ codec = "faithful" /\ ~is_mpi_datatype
  /\ nproc = 3 /\ n = 1 /\ root = 1 /\ reordered
  /\ in_values[0] # in_values[2]
  /\ \A k \in Ranks : SliceIs(out_values[root], k, in_values[k])

----------------------------------------------------------------------------
\* The offsets of sizes s are 0 and then offsets[k-1] + s[k-1].
OffsetsRecurrence(s, o) ==
  /\ Len(o) = Len(s)
  /\ o[1] = 0
  /\ \A k \in 2 .. Len(s) : o[k] = o[k - 1] + s[k - 1]

\* The bytes [o[k], o[k] + s[k]) of sender k (k counted from 1).
Segment(s, o, k) == { b \in o[k] .. (o[k] + s[k] - 1) : TRUE }

\* The segments are pairwise disjoint and cover [0, sum(s)).
SegmentsPartition(s, o) ==
  /\ \A j, k \in 1 .. Len(s) : j # k => Segment(s, o, j) \cap Segment(s, o, k) = { }
  /\ UNION { Segment(s, o, k) : k \in 1 .. Len(s) } = 0 .. (MathSum(s) - 1)

\* C2 as stated: for every size sequence s of length N >= 1, sizes2offset yields
\* offsets[0] = 0 and offsets[k] = offsets[k-1] + s[k-1], and the segments
\* [offsets[k], offsets[k]+s[k]) are pairwise disjoint and cover [0, sum(s)).
C2_AsStated ==
  s2o.state = "returned" =>
    /\ OffsetsRecurrence(s2o.sizes, s2o.offsets)
    /\ SegmentsPartition(s2o.sizes, s2o.offsets)

\* C2, amended: for every sequence s of non-negative sizes of length N >= 1 whose
\* sum does not exceed INT_MAX, sizes2offset returns offsets with offsets[0] = 0
\* and offsets[k] = offsets[k-1] + s[k-1], and the segments
\* [offsets[k], offsets[k]+s[k]) are pairwise disjoint and cover [0, sum(s)).
C2_OffsetsWhenSumFits ==
  (s2o.state \in { "returned", "trapped" } /\ MathSum(s2o.sizes) <= INT_MAX) =>
    /\ s2o.state = "returned"
    /\ OffsetsRecurrence(s2o.sizes, s2o.offsets)
    /\ SegmentsPartition(s2o.sizes, s2o.offsets)

C2_Witness ==
  /\ s2o.state = "returned"
  /\ s2o.sizes = << 2, 0, 1 >>
  /\ s2o.offsets = << 0, 2, 2 >>

----------------------------------------------------------------------------
\* C3: on the serialized path the root never decodes its own contribution: its
\* slice [root*n, root*n+n) is filled by the copy of its local values and holds
\* them whatever T's load does, and by the end of the loop a packed_iarchive was
\* constructed for each of the N-1 other ranks and for no other.
C3_RootCopiesOwnSlice ==
  ~is_mpi_datatype =>
    /\ root \notin decoders[root]
    /\ copies[root] \subseteq { root }
    /\ root \in copies[root] => SliceIs(out_values[root], root, in_values[root])
    /\ pc[root] = "done" => /\ copies[root] = { root }
                            /\ decoders[root] = Ranks \ { root }

C3_Witness ==
  /\ ~is_mpi_datatype /\ codec = "lossy" /\ pc[root] = "done"
  /\ nproc = 3 /\ n = 1 /\ root = 1
  /\ SliceIs(out_values[root], root, in_values[root])
  /\ \A k \in Ranks \ { root } : ~SliceIs(out_values[root], k, in_values[k])
  /\ decoders[root] = { 0, 2 }

----------------------------------------------------------------------------
\* The phases of a serialized gather on rank p.
FullPhases(p) ==
  IF p = root
  THEN << "encode", "size_exchange", "offsets", "payload_exchange", "decode" >>
  ELSE << "encode", "size_exchange", "payload_exchange" >>

\* The phases every rank takes part in.
SharedPhases(s) ==
  SelectSeq(s, LAMBDA x : x \in { "encode", "size_exchange", "payload_exchange" })

\* C4: on the serialized path every rank whose call returns has executed encode,
\* size exchange and payload exchange, once each and in this order; a non-root
\* omits only the offset computation and the decode; no rank ever executes a
\* phase out of this order or twice.
C4_SamePhasesOnEveryRank ==
  ~is_mpi_datatype =>
    \A p \in Ranks :
      /\ IsPrefix(phases[p], FullPhases(p))
      /\ pc[p] = "done" =>
           /\ phases[p] = FullPhases(p)
           /\ SharedPhases(phases[p]) =
                << "encode", "size_exchange", "payload_exchange" >>

C4_Witness ==
  /\ ~is_mpi_datatype /\ AllDone /\ nproc = 3 /\ n = 1
  /\ \A p \in Ranks : SharedPhases(phases[p]) =
                        << "encode", "size_exchange", "payload_exchange" >>
  /\ \A p \in Ranks \ { root } : Len(phases[p]) = 3

----------------------------------------------------------------------------
\* Rank p left the size exchange with MPI_SUCCESS.
PastSizeExchange(p) == InSeq("payload_exchange", phases[p])

\* Rank p left the payload exchange with MPI_SUCCESS.
PastPayloadExchange(p) ==
  IF p = root THEN InSeq("decode", phases[p])
  ELSE pc[p] = "done" /\ InSeq("payload_exchange", phases[p])

----------------------------------------------------------------------------
\* C6: with the std::vector overloads, the root's container has exactly N*n
\* elements from the moment gather_impl is entered, and a non-root's container
\* keeps its length and contents throughout the call.
C6_ContainerSized ==
  api = "vec" =>
    \A p \in Ranks :
      pc[p] # "idle" =>
        IF p = root THEN Len(out_values[p]) = nproc * n
        ELSE out_values[p] = OldContainer(p)

C6_Witness ==
  /\ api = "vec" /\ AllDone /\ nproc = 3 /\ n = 1 /\ root = 2
  /\ Len(OldContainer(root)) = 2 /\ Len(out_values[root]) = 3
  /\ out_values[1] = << StaleValue >>

----------------------------------------------------------------------------
\* C7: a root that calls an overload without receive buffer fails the assertion
\* before it enters any collective, and the std::vector overloads never reach
\* those overloads on the root.
C7_NonRootOverloadsAssert ==
  /\ (api = "nonroot" /\ pc[root] # "idle") =>
       /\ pc[root] = "assert_failed"
       /\ phases[root] = << >>
       /\ \A c \in Collectives : root \notin joined[c]
  /\ api = "vec" =>
       /\ pc[root] # "assert_failed"
       /\ ~InSeq("gather_nonroot", calls[root])

C7_Witness ==
  /\ api = "nonroot" /\ pc[root] = "assert_failed" /\ nproc = 3
  /\ joined["MPI_Gather"] = Ranks \ { root }
  /\ calls[root] = << "gather_nonroot" >>

----------------------------------------------------------------------------
C8_Step ==
  \A p \in Ranks :
    /\ \A status \in Statuses \ { "MPI_SUCCESS" } :
         (Return_MPI_Gather(p, status) \/ Return_MPI_Gatherv(p, status)) =>
           /\ pc'[p] = "error"
           /\ err'[p].result_code = status
           /\ phases'[p] = phases[p]
           /\ out_values'[p] = out_values[p]
    /\ (pc'[p] = "error" /\ err'[p].routine = "MPI_Gather") =>
         /\ p \notin joined'["MPI_Gatherv"]
         /\ ~InSeq("payload_exchange", phases'[p])
    /\ (pc'[p] = "error" /\ err'[p].routine = "MPI_Gatherv") =>
         /\ decoders'[p] = { } /\ copies'[p] = { }
         /\ ~InSeq("decode", phases'[p])
         /\ out_values'[p] = EntryOut(p)
    /\ pc[p] = "error" =>
         /\ Local(p)' = Local(p)
         /\ \A c \in Collectives : p \in joined'[c] <=> p \in joined[c]

\* C8: a non-success status of MPI_Gather or MPI_Gatherv ends the rank's call at
\* once in an error that carries the status; nothing of the rank changes after
\* that (no retry, no later phase): after a failed size exchange it never joins
\* the payload exchange, and after a failed payload exchange the root has
\* decoded and copied nothing into the result.
C8_TransportFailureEndsCall == [][C8_Step]_vars

C8_Witness ==
  /\ ~is_mpi_datatype /\ nproc = 3 /\ n = 1
  /\ pc[root] = "error" /\ err[root].routine = "MPI_Gatherv"
  /\ err[root].result_code = "MPI_ERR_OTHER"
  /\ delivered["MPI_Gatherv"] # { }
  /\ \E p \in Ranks : pc[p] = "error" /\ err[p].routine = "MPI_Gather"

----------------------------------------------------------------------------
\* C9 as stated: on the direct path no participant's call has returned
\* successfully while another's has ended in a transport failure.
C9_AsStated ==
  is_mpi_datatype =>
    ~ \E p, q \in Ranks : pc[p] = "done" /\ pc[q] = "error"

C9_Step ==
  is_mpi_datatype =>
    \A p \in Ranks : \A status \in Statuses :
      Return_MPI_Gather(p, status) =>
        /\ pc'[p] = "error" <=> status # "MPI_SUCCESS"
        /\ pc'[p] = "done" <=> status = "MPI_SUCCESS"
        /\ \A q \in Ranks \ { p } : pc'[q] = pc[q] /\ err'[q] = err[q]

\* C9, amended: on the direct path a transport failure ends the call of the
\* participant whose MPI_Gather reported it and of no other: a call ends in a
\* transport failure exactly when its own MPI_Gather returned a status other
\* than MPI_SUCCESS, whatever the calls of the other participants return.
C9_FailureIsPerParticipant == [][C9_Step]_vars

C9_Witness ==
  /\ is_mpi_datatype /\ nproc = 3 /\ n = 1
  /\ pc[root] = "done"
  /\ \E q \in Ranks : pc[q] = "error" /\ err[q].routine = "MPI_Gather"
  /\ \E q \in Ranks \ { root } : pc[q] = "done"

----------------------------------------------------------------------------
\* C10: when decoding the segment of sender k fails on the root, the root's call
\* has ended in a decode error, the slices of the ranks j < k (the root's own
\* among them if root < k) hold those senders' values, and no slice of a rank
\* j > k has been written (T's load being the inverse of its save where it
\* succeeds).
C10_DecodeFailureKeepsEarlierSlices ==
  (pc[root] = "error" /\ err[root].routine = "packed_iarchive") =>
    /\ src[root] # root
    /\ src[root] \in decoders[root]
    /\ \A j \in Ranks :
         /\ (j < src[root] /\ (codec = "faithful" \/ j = root)) =>
              SliceIs(out_values[root], j, in_values[j])
         /\ j > src[root] => SliceSame(out_values[root], j, EntryOut(root))

C10_Witness ==
  /\ pc[root] = "error" /\ err[root].routine = "packed_iarchive"
  /\ codec = "faithful" /\ api = "ptr"
  /\ nproc = 3 /\ n = 1 /\ root = 0 /\ src[root] = 1
  /\ SliceIs(out_values[root], 0, in_values[0])
  /\ out_values[root][3] = StaleValue

----------------------------------------------------------------------------
\* n ints of value 0.
Zeros(len) == [ i \in 1 .. len |-> 0 ]

\* C11 as stated: with n = 0 (and every rank calling an overload meant for it)
\* no call ends in anything but a return or a transport failure: every rank
\* encodes a zero-length payload, the root's size vector holds zeros, the
\* offsets are computed and the payload exchange runs, a returned root has
\* gone through every phase with an empty result, and the process of no rank
\* ends in an element access of the empty container.
C11_AsStated ==
  (n = 0 /\ api # "nonroot") =>
    \A p \in Ranks :
      /\ pc[p] # "aborted"
      /\ pc[p] = "error" => err[p].routine \in Collectives
      /\ oa[p] = << >>
      /\ (p = root /\ pc[p] # "idle") => Len(out_values[p]) = 0
      /\ (~is_mpi_datatype /\ p = root /\ PastSizeExchange(p)) =>
           /\ asizes[p] = Zeros(nproc)
           /\ offsets[p] = Zeros(nproc)
           /\ recv_buffer[p] = << >>
      /\ (~is_mpi_datatype /\ p = root /\ pc[p] = "done") =>
           phases[p] = FullPhases(p)

----------------------------------------------------------------------------
\* C12: in a group of one (the root alone) a returned call has left exactly the
\* root's local values in the result, for every n and whatever T's load does;
\* on the serialized path the offsets are [0], the loop of sizes2offset has
\* bound 0 (its body never runs) and no packed_iarchive is constructed.
C12_SingleParticipant ==
  nproc = 1 =>
    /\ pc[root] = "done" => out_values[root] = in_values[root]
    /\ decoders[root] = { }
    /\ (~is_mpi_datatype /\ InSeq("offsets", phases[root])) =>
         /\ offsets[root] = << 0 >>
         /\ LoopBound(asizes[root]) = 0

C12_Witness ==
  /\ nproc = 1 /\ n = 2 /\ ~is_mpi_datatype /\ codec = "lossy"
  /\ pc[root] = "done"
  /\ in_values[root][1] # in_values[root][2]
  /\ out_values[root] = in_values[root]
  /\ offsets[root] = << 0 >> /\ asizes[root] = << Len(oa[root]) >>
  /\ copies[root] = { root }

----------------------------------------------------------------------------
\* The offsets o of the sizes s are non-negative and non-decreasing, and a
\* sender of size 0 shares its offset with the next sender.
OffsetsMonotone(s, o) ==
  /\ Len(o) = Len(s)
  /\ \A k \in 1 .. Len(o) : o[k] >= 0
  /\ \A k \in 1 .. Len(o) - 1 : o[k] <= o[k + 1]
  /\ \A k \in 1 .. Len(o) - 1 : s[k] = 0 => o[k + 1] = o[k]

\* C13 as stated: for every sequence of non-negative sizes held as ints,
\* sizes2offset returns offsets that are non-negative and non-decreasing, with
\* offsets[k+1] = offsets[k] whenever sizes[k] = 0.
C13_AsStated ==
  s2o.state # "ready" =>
    /\ s2o.state = "returned"
    /\ OffsetsMonotone(s2o.sizes, s2o.offsets)

\* C13, amended: for every sequence of non-negative sizes held as ints whose sum
\* does not exceed INT_MAX, zero-length entries included, sizes2offset returns
\* offsets that are non-negative and non-decreasing, with
\* offsets[k+1] = offsets[k] whenever sizes[k] = 0.
C13_OffsetsMonotoneWhenSumFits ==
  (s2o.state # "ready" /\ MathSum(s2o.sizes) <= INT_MAX) =>
    /\ s2o.state = "returned"
    /\ OffsetsMonotone(s2o.sizes, s2o.offsets)

C13_Witness ==
  /\ s2o.state = "returned"
  /\ s2o.sizes = << 0, 2, 0 >>
  /\ s2o.offsets = << 0, 0, 2 >>

----------------------------------------------------------------------------
\* The bytes [offsets[k], offsets[k] + sizes[k]) of the root's receive buffer.
BufferSegment(k) ==
  SubSeq(recv_buffer[root], offsets[root][k + 1] + 1,
         offsets[root][k + 1] + asizes[root][k + 1])

----------------------------------------------------------------------------
\* How often x occurs in s.
Count(x, s) == Len(SelectSeq(s, LAMBDA y : y = x))

\* How many gather_impl overloads issuing MPI_Gather rank p has entered.
DirectImpls(p) ==
  Count("impl_direct_root", calls[p]) + Count("impl_direct_nonroot", calls[p])

\* C15: on the direct path every rank that reaches gather_impl, root or not,
\* issues MPI_Gather exactly once, with count n and n values, and no other
\* collective; on the serialized path the nested gather of the size issues
\* MPI_Gather exactly once per rank with count 1 and one int, and a rank whose
\* call returns has issued after it MPI_Gatherv exactly once; no rank ever
\* issues either collective twice.
C15_OneCollectiveCallPerExchange ==
  \A p \in Ranks :
    /\ Count("transfer", phases[p]) + Count("size_exchange", phases[p])
         = (IF p \in joined["MPI_Gather"] THEN 1 ELSE 0)
    /\ Count("payload_exchange", phases[p])
         = (IF p \in joined["MPI_Gatherv"] THEN 1 ELSE 0)
    /\ pc[p] \notin { "idle", "assert_failed", "aborted" } =>
         /\ p \in joined["MPI_Gather"]
         /\ DirectImpls(p) = 1
         /\ Len(GatherSend(p)) = GatherCount
    /\ is_mpi_datatype =>
         /\ GatherCount = n
         /\ p \notin joined["MPI_Gatherv"]
         /\ pc[p] = "done" => phases[p] = << "transfer" >>
    /\ ~is_mpi_datatype =>
         /\ GatherCount = 1
         /\ pc[p] = "done" =>
              SharedPhases(phases[p]) =
                << "encode", "size_exchange", "payload_exchange" >>

C15_Witness ==
  /\ nproc = 2 /\ n = 2 /\ is_mpi_datatype /\ AllDone
  /\ \A p \in Ranks : phases[p] = << "transfer" >> /\ Len(GatherSend(p)) = 2
  /\ joined["MPI_Gather"] = Ranks /\ joined["MPI_Gatherv"] = { }

----------------------------------------------------------------------------
\* C17: throughout a serialized gather, on every rank but the root the size
\* vector stays empty, sizes2offset is never run (the offset vector, once
\* constructed, holds its N initial zeros), the receive buffer has length 0, no
\* packed_iarchive is constructed, the decode loop is not entered and nothing
\* is written to the rank's result.
C17_OnlyRootOwnsBuffers ==
  ~is_mpi_datatype =>
    \A p \in Ranks \ { root } :
      /\ asizes[p] = << >>
      /\ ~InSeq("offsets", phases[p])
      /\ offsets[p] = IF InSeq("payload_exchange", phases[p])
                      THEN Zeros(nproc) ELSE << >>
      /\ recv_buffer[p] = << >>
      /\ decoders[p] = { } /\ copies[p] = { }
      /\ ~InSeq("decode", phases[p]) /\ src[p] = 0
      /\ out_values[p] = OldContainer(p)

C17_Witness ==
  /\ ~is_mpi_datatype /\ nproc = 3 /\ n = 1 /\ root = 0 /\ AllDone
  /\ asizes[root] # Zeros(nproc) /\ offsets[root] # Zeros(nproc)
  /\ Len(recv_buffer[root]) > 0 /\ decoders[root] = { 1, 2 }
  /\ \A p \in { 1, 2 } :
       /\ asizes[p] = << >> /\ recv_buffer[p] = << >>
       /\ offsets[p] = Zeros(nproc) /\ decoders[p] = { }

----------------------------------------------------------------------------
\* C19: on the serialized path the size a rank announces in the size exchange
\* is the send count it passes to the payload exchange, both int(oa.size()) of
\* the same oa; so the root's sizes[k], once it has arrived, is the number of
\* bytes of rank k's encoded payload, and the number of bytes the root receives
\* from rank k.
C19_AnnouncedSizeIsSentSize ==
  ~is_mpi_datatype =>
    \A k \in Ranks :
      /\ k \in joined["MPI_Gather"] => GatherSend(k) = << GathervSendCount(k) >>
      /\ k \in delivered["MPI_Gather"] =>
           /\ asizes[root][k + 1] = GathervSendCount(k)
           /\ asizes[root][k + 1] = Len(oa[k])
      /\ k \in delivered["MPI_Gatherv"] =>
           /\ Len(GathervRecv(k)) = GathervSendCount(k)
           /\ Len(BufferSegment(k)) = Len(oa[k])

C19_Witness ==
  /\ ~is_mpi_datatype /\ nproc = 3 /\ n = 1 /\ root = 2
  /\ delivered["MPI_Gatherv"] = Ranks
  /\ Len(oa[0]) = 2 /\ Len(oa[1]) = 3
  /\ asizes[root] = << 2, 3, Len(oa[2]) >>
  /\ GathervSendCount(0) = 2 /\ GathervSendCount(1) = 3

----------------------------------------------------------------------------
\* C20: a rank that has run sizes2offset is the root, has completed the size
\* exchange before with the size of every rank delivered, and has run it on a
\* size vector of exactly N >= 1 elements and an offset vector of as many, so
\* that the assertion holds and sizes.size()-1 = N-1 does not wrap around; the
\* root's size vector has these N elements from the nested gather's resize on.
C20_Sizes2OffsetPrecondition ==
  \A p \in Ranks :
    /\ InSeq("offsets", phases[p]) =>
         /\ p = root /\ ~is_mpi_datatype
         /\ IsPrefix(<< "encode", "size_exchange", "offsets" >>, phases[p])
         /\ Ranks \subseteq delivered["MPI_Gather"]
         /\ nproc >= 1
         /\ Len(asizes[p]) = nproc
         /\ Len(offsets[p]) = Len(asizes[p])
         /\ LoopBound(asizes[p]) = nproc - 1
    /\ (~is_mpi_datatype /\ p = root /\ InSeq("size_exchange", phases[p])) =>
         Len(asizes[p]) = nproc

C20_Witness ==
  /\ ~is_mpi_datatype /\ nproc = 3 /\ root = 1 /\ api = "vec"
  /\ InSeq("offsets", phases[root])
  /\ Len(asizes[root]) = 3 /\ Len(offsets[root]) = 3
  /\ \E p \in Ranks \ { root } : pc[p] = "done" /\ asizes[p] = << >>

----------------------------------------------------------------------------
\* The call of some rank has ended without returning: in a transport or decode
\* failure, a failed assertion, or a trapped element access.
SomeCallFailed ==
  \E p \in Ranks : pc[p] \in { "error", "assert_failed", "aborted" }

\* C18: when every rank of the group calls gather (with the one root and the
\* one n of the call) and the ranks and the transport keep running, then
\* eventually the call of every rank has returned, unless some rank's call ends
\* in a failure: neither exchange, nor the size exchange followed by the payload
\* exchange, blocks a rank forever, on either path.
C18_EveryCallReturns == <>(AllDone \/ SomeCallFailed)

C18_Witness ==
  /\ AllDone /\ ~SomeCallFailed /\ ~is_mpi_datatype
  /\ nproc = 3 /\ n = 1 /\ api = "vec"
  /\ \A p \in Ranks : InSeq("size_exchange", phases[p])
                        /\ InSeq("payload_exchange", phases[p])

----------------------------------------------------------------------------
\* What one collective of the root received came from the same call.
SameCall(e) ==
  \A k \in Ranks : e.from[k].call = e.call /\ e.from[k].routine = e.routine

====
